---- MODULE Spec2Model ----
(***************************************************************************)
(* Model of backend/server.py: the robot state singleton, the simulation   *)
(* task robot_simulation, the command handler send_robot_command, the      *)
(* status endpoint and the websocket ConnectionManager.                    *)
(*                                                                         *)
(* The server runs on one asyncio event loop.  A coroutine runs without    *)
(* interruption from one await to the next, so one action of this model is *)
(* the code a task executes between two suspension points.  The awaits of  *)
(* the source are: connection.send_text (inside broadcast, once per        *)
(* connection), db.cleaning_logs.insert_one, asyncio.sleep(3) and          *)
(* asyncio.sleep(5).  send_text hands the frame to the transport when it   *)
(* is called and may suspend afterwards; to a client that has stopped      *)
(* reading it does not return.                                             *)
(*                                                                         *)
(* What the environment decides is an input of the run: a request, a       *)
(* websocket connect, stall, failure or disconnect, a failure of the log   *)
(* store, and a random.random() roll below 0.1.                            *)
(***************************************************************************)
EXTENDS Integers, Sequences, FiniteSets, TLC

(* ---- bounds of the model ---- *)
NumTasks == 2      \* command requests that can be in flight at once
NumSubs == 2       \* websocket clients that ever connect
MaxInputs == 3     \* requests, websocket events, store failures, obstacles in one run
MaxTicks == 2      \* iterations of the simulation loop that find the robot active

(* ---- constants of the program ---- *)
ProgressStep == 2
ProgressFull == 100
MopLimit == 30
SprayLimit == 60
UvLimit == 90

None == "None"
NoTime == 0        \* start_time = None (the clock starts above it)
TICK == 0
Tasks == 1..NumTasks
Agents == {TICK} \cup Tasks
Subs == 1..NumSubs
Modes == {"uv_only"}

VARIABLES
    robot_state,         \* the RobotState singleton
    active_connections,  \* ConnectionManager.active_connections, a list
    sub,                 \* per client: "new", "open", "stuck", "broken" or "closed"
    inbox,               \* per client: the frames it has received, in order
    log,                 \* db.cleaning_logs, in insertion order
    pc,                  \* per task: the await it is suspended at
    bc,                  \* per task: the locals of its running broadcast call
    pending,             \* per task: the CleaningLog it is inserting
    req,                 \* per handler task: the request it serves (id alternates)
    resp,                \* per handler task: the last response it returned
    now,                 \* the clock read by datetime.utcnow()
    ncmd,                \* inputs so far: requests, websocket events, store failures, obstacles
    ticks,               \* active loop iterations so far
    nev,                 \* broadcast messages built so far (each gets the next number)
    started,             \* the sessions started so far: <<start_time, mode>>
    observed,            \* what the last GET /robot/status returned
    logFailed,           \* whether an insert_one has failed
    session              \* the current session: its ticks so far, and whether it
                         \* has had neither a pause nor an obstacle

vars == <<robot_state, active_connections, sub, inbox, log, pc, bc, pending,
          req, resp, now, ncmd, ticks, nev, started, observed, logFailed, session>>

(***************************************************************************)
(* RobotState                                                              *)
(***************************************************************************)
RobotState0 ==
    [status |-> "idle", progress |-> 0, is_cleaning |-> FALSE,
     obstacle_detected |-> FALSE, start_time |-> NoTime, current_mode |-> None,
     pause_reason |-> None]

isoformat(t) == ToString(t)

to_dict(rs) ==
    [status |-> rs.status, progress |-> rs.progress,
     is_cleaning |-> rs.is_cleaning,
     obstacle_detected |-> rs.obstacle_detected,
     start_time |-> IF rs.start_time # NoTime THEN isoformat(rs.start_time) ELSE None,
     current_mode |-> rs.current_mode,
     pause_reason |-> rs.pause_reason]

\* the status the simulation derives from the progress value
PhaseOf(p) ==
    IF p < MopLimit THEN "mopping"
    ELSE IF p < SprayLimit THEN "spraying"
    ELSE IF p < UvLimit THEN "uv_disinfecting"
    ELSE "mopping"

CleaningLog(start, end, mode, outcome, progress) ==
    [start_time |-> start, end_time |-> end, duration |-> end - start,
     mode |-> mode, status |-> outcome, progress |-> progress]

NoLog == [status |-> None]
NoBc == [active |-> FALSE]
NoReq == [id |-> 0, command |-> None, mode |-> None]
NoResp == [id |-> 1, success |-> None]

(***************************************************************************)
(* ConnectionManager                                                       *)
(***************************************************************************)
RECURSIVE Without(_, _)
Without(list, x) ==
    IF list = <<>> THEN <<>>
    ELSE IF Head(list) = x THEN Tail(list)
    ELSE <<Head(list)>> \o Without(Tail(list), x)

\* ConnectionManager.disconnect: remove the connection if it is in the list
disconnect(list, x) == Without(list, x)

RECURSIVE DisconnectAll(_, _)
DisconnectAll(list, gone) ==
    IF gone = <<>> THEN list
    ELSE DisconnectAll(disconnect(list, Head(gone)), Tail(gone))

\* The part of the state a broadcast call reads and writes.
Shared ==
    [ac |-> active_connections, sub |-> sub, inbox |-> inbox, pc |-> pc,
     bc |-> bc, req |-> req, resp |-> resp, nev |-> nev, tick |-> ticks]

\* the "message" text of the broadcast dict; a status_update has none
Text(S, a, type) ==
    IF a = TICK
    THEN CASE type = "alert" -> "Obstacle detected! Robot paused for safety."
           [] type = "info" -> "Path clear. Resuming cleaning..."
           [] type = "cleaning_complete" -> "Cleaning cycle completed successfully!"
           [] OTHER -> None
    ELSE CASE S.req[a].command = "start" -> "Starting cycle..."
           [] S.req[a].command = "stop" -> "Cleaning stopped by user"
           [] S.req[a].command = "pause" -> "Cleaning paused by user"
           [] S.req[a].command = "resume" -> "Cleaning resumed"
           [] OTHER -> None

\* the dict handed to broadcast; id numbers the messages in the order they are
\* built, tick is the loop iteration that built it (0 for a command handler)
Message(S, a, type, rs) ==
    [id |-> S.nev + 1, type |-> type, message |-> Text(S, a, type),
     tick |-> IF a = TICK THEN S.tick ELSE 0, robot_state |-> to_dict(rs)]

\* connection.send_text: the frame reaches an open client, a broken one
\* raises, a stuck one takes nothing and the call does not return
send_text(S, c, msg) ==
    IF S.sub[c] = "open"
    THEN [S EXCEPT !.inbox[c] = Append(@, msg)]
    ELSE S

RECURSIVE broadcast(_, _, _), AfterBroadcast(_, _, _), BeginBroadcast(_, _, _, _)

\* One resumption of ConnectionManager.broadcast for task a: either the next
\* iteration of the for loop, which ends suspended in send_text, or the end of
\* the loop, the removal of the failed connections and the caller's
\* continuation up to its next await.
broadcast(a, rs, S) ==
    LET b == S.bc[a] IN
    IF b.i < Len(S.ac)
    THEN LET c == S.ac[b.i + 1]
             S1 == send_text(S, c, b.msg)
         IN [S1 EXCEPT !.bc[a] =
                [b EXCEPT !.i = b.i + 1,
                          !.blocked = (S.sub[c] = "stuck"),
                          !.disconnected =
                              IF S.sub[c] \in {"open", "stuck"} THEN @ ELSE Append(@, c)]]
    ELSE AfterBroadcast(a, rs,
            [S EXCEPT !.ac = DisconnectAll(@, b.disconnected), !.bc[a] = NoBc])

\* the call manager.broadcast({...}): the message is built, then the loop runs
\* to its first suspension
BeginBroadcast(a, type, rs, S) ==
    broadcast(a, rs,
        [S EXCEPT !.nev = S.nev + 1,
                  !.pc[a] = type,
                  !.bc[a] = [active |-> TRUE, msg |-> Message(S, a, type, rs), i |-> 0,
                             blocked |-> FALSE, disconnected |-> <<>>,
                             targets |-> S.ac]])

\* a simulation task that sends its snapshot straight after the alert
AfterBroadcastNoGrace(a, rs, S) ==
    IF a = TICK
    THEN CASE S.pc[a] = "alert" -> BeginBroadcast(a, "status_update", rs, S)
           [] OTHER -> [S EXCEPT !.pc[a] = "sleep"]
    ELSE [S EXCEPT !.pc[a] = "idle",
                   !.resp[a] = [id |-> S.req[a].id, success |-> "true"]]

\* what the caller does when its broadcast call returns
AfterBroadcast(a, rs, S) ==
    IF a = TICK
    THEN CASE S.pc[a] = "alert" -> [S EXCEPT !.pc[a] = "grace"]
           [] S.pc[a] = "info" -> BeginBroadcast(a, "status_update", rs, S)
           [] OTHER -> [S EXCEPT !.pc[a] = "sleep"]
    ELSE [S EXCEPT !.pc[a] = "idle",
                   !.resp[a] = [id |-> S.req[a].id, success |-> "true"]]

Commit(S) ==
    /\ active_connections' = S.ac
    /\ sub' = S.sub
    /\ inbox' = S.inbox
    /\ pc' = S.pc
    /\ bc' = S.bc
    /\ req' = S.req
    /\ resp' = S.resp
    /\ nev' = S.nev

(***************************************************************************)
(* Initial states: the state after construction, and states of a first     *)
(* full_clean session that has run InitProgress/2 ticks with no client     *)
(* connected, no obstacle and no command since its Start: the states one   *)
(* tick before each phase change and one tick before progress 100.         *)
(***************************************************************************)
InitProgress == {28, 58, 88, 98}

Running(p) ==
    [status |-> PhaseOf(p), progress |-> p, is_cleaning |-> TRUE,
     obstacle_detected |-> FALSE, start_time |-> 1, current_mode |-> "full_clean",
     pause_reason |-> None]

Init ==
    /\ \/ /\ robot_state = RobotState0
          /\ now = 0
          /\ started = <<>>
          /\ session = [ticks |-> 0, clean |-> TRUE]
       \/ /\ \E p \in InitProgress :
                /\ robot_state = Running(p)
                /\ session = [ticks |-> p \div ProgressStep, clean |-> TRUE]
          /\ now = 1
          /\ started = <<[start_time |-> 1, mode |-> "full_clean"]>>
    /\ active_connections = <<>>
    /\ sub = [s \in Subs |-> "new"]
    /\ inbox = [s \in Subs |-> <<>>]
    /\ log = <<>>
    /\ pc = [a \in Agents |-> IF a = TICK THEN "sleep" ELSE "idle"]
    /\ bc = [a \in Agents |-> NoBc]
    /\ pending = [a \in Agents |-> NoLog]
    /\ req = [t \in Tasks |-> NoReq]
    /\ resp = [t \in Tasks |-> NoResp]
    /\ ncmd = 0
    /\ ticks = 0
    /\ nev = 0
    /\ observed = <<>>
    /\ logFailed = FALSE

(***************************************************************************)
(* send_robot_command                                                      *)
(***************************************************************************)
\* a server that takes no request while the simulation task waits out an obstacle
FreeOutsideGrace(t) ==
    pc[TICK] # "grace" /\ pc[t] = "idle" /\ \A u \in Tasks : u < t => pc[u] # "idle"

\* the request is served by the first task that is not in use
Free(t) == pc[t] = "idle" /\ \A u \in Tasks : u < t => pc[u] # "idle"

Request(t, c, m) == [Shared EXCEPT !.req[t] = [id |-> 1 - req[t].id, command |-> c, mode |-> m]]

\* the handler returns {"success": False, ...} without touching anything
Reject(t, S) ==
    [S EXCEPT !.pc[t] = "idle", !.resp[t] = [id |-> S.req[t].id, success |-> "false"]]

\* the handler raises: the request ends with an error response
Raise(t, S) ==
    [S EXCEPT !.pc[t] = "idle", !.resp[t] = [id |-> S.req[t].id, success |-> "error"]]

\* a start branch that does not look at is_cleaning
StartGuardAlways(rs) == TRUE

StartGuard(rs) == ~rs.is_cleaning

StartState(rs, t, m) ==
    [rs EXCEPT !.is_cleaning = TRUE, !.status = "mopping", !.progress = 0,
               !.start_time = t, !.current_mode = m]

Start(t) ==
    \E m \in Modes :
        /\ Free(t) /\ ncmd < MaxInputs
        /\ ncmd' = ncmd + 1
        /\ IF StartGuard(robot_state)
           THEN /\ robot_state' = StartState(robot_state, now + 1, m)
                /\ now' = now + 1
                /\ started' = Append(started, [start_time |-> now + 1, mode |-> m])
                /\ session' = [ticks |-> 0, clean |-> TRUE]
                /\ Commit(BeginBroadcast(t, "info", robot_state', Request(t, "start", m)))
           ELSE /\ Commit(Reject(t, Request(t, "start", m)))
                /\ UNCHANGED <<robot_state, now, started, session>>
        /\ UNCHANGED <<log, pending, ticks, observed, logFailed>>

StopGuard(rs) == rs.is_cleaning

\* a stop branch that builds its log after the reset of progress
StopLogAfterReset(rs, end) ==
    CleaningLog(rs.start_time, end, rs.current_mode, "interrupted", 0)

\* the CleaningLog the stop branch builds before it awaits the insert
StopLog(rs, end) == CleaningLog(rs.start_time, end, rs.current_mode, "interrupted", rs.progress)

Stop(t) ==
    /\ Free(t) /\ ncmd < MaxInputs
    /\ ncmd' = ncmd + 1
    /\ IF StopGuard(robot_state)
       THEN /\ robot_state' = [robot_state EXCEPT !.is_cleaning = FALSE, !.status = "idle"]
            /\ now' = now + 1
            /\ IF robot_state.start_time = NoTime
               THEN \* end_time - None raises TypeError
                    /\ Commit(Raise(t, Request(t, "stop", None)))
                    /\ UNCHANGED pending
               ELSE /\ pending' = [pending EXCEPT ![t] = StopLog(robot_state', now + 1)]
                    /\ Commit([Request(t, "stop", None) EXCEPT !.pc[t] = "insert"])
       ELSE /\ Commit(Reject(t, Request(t, "stop", None)))
            /\ UNCHANGED <<robot_state, now, pending>>
    /\ UNCHANGED <<log, ticks, started, observed, logFailed, session>>

\* what the stop branch resets once the insert has returned
StopReset(rs) == [rs EXCEPT !.progress = 0, !.start_time = NoTime, !.current_mode = None]

StopInsert(t) ==
    /\ t \in Tasks /\ pc[t] = "insert"
    /\ pending' = [pending EXCEPT ![t] = NoLog]
    /\ \/ /\ log' = Append(log, pending[t])
          /\ robot_state' = StopReset(robot_state)
          /\ Commit(BeginBroadcast(t, "info", robot_state', Shared))
          /\ UNCHANGED logFailed
          /\ UNCHANGED ncmd
       \/ \* the store is unavailable: insert_one raises, nothing below it runs
          /\ ncmd < MaxInputs
          /\ ncmd' = ncmd + 1
          /\ logFailed' = TRUE
          /\ Commit(Raise(t, Shared))
          /\ UNCHANGED <<log, robot_state>>
    /\ UNCHANGED <<now, ticks, started, observed, session>>

\* a pause branch that does not look at the status
PauseGuardAnyStatus(rs) == rs.is_cleaning

PauseGuard(rs) == rs.is_cleaning /\ rs.status # "paused"

Pause(t) ==
    /\ Free(t) /\ ncmd < MaxInputs
    /\ ncmd' = ncmd + 1
    /\ IF PauseGuard(robot_state)
       THEN /\ robot_state' = [robot_state EXCEPT !.status = "paused",
                                                  !.pause_reason = "user_request"]
            /\ session' = [session EXCEPT !.clean = FALSE]
            /\ Commit(BeginBroadcast(t, "info", robot_state', Request(t, "pause", None)))
       ELSE /\ Commit(Reject(t, Request(t, "pause", None)))
            /\ UNCHANGED <<robot_state, session>>
    /\ UNCHANGED <<log, pending, now, ticks, started, observed, logFailed>>

ResumeGuard(rs) == rs.is_cleaning /\ rs.status = "paused"

ResumeState(rs) == [rs EXCEPT !.status = "mopping", !.pause_reason = None]

Resume(t) ==
    /\ Free(t) /\ ncmd < MaxInputs
    /\ ncmd' = ncmd + 1
    /\ IF ResumeGuard(robot_state)
       THEN /\ robot_state' = ResumeState(robot_state)
            /\ Commit(BeginBroadcast(t, "info", robot_state', Request(t, "resume", None)))
       ELSE /\ Commit(Reject(t, Request(t, "resume", None)))
            /\ UNCHANGED robot_state
    /\ UNCHANGED <<log, pending, now, ticks, started, observed, logFailed, session>>

\* the body model RobotCommand: command is declared str, with no list of
\* allowed values, so validation passes for every string
RobotCommand(c) == c \in STRING

\* a command that is none of start, stop, pause, resume
OtherCommands == {"invalid_command"}

\* send_robot_command with such a command: a body that fails validation is
\* answered 422 before the handler runs; otherwise no branch of the if/elif
\* chain matches, the function ends without a return statement and the
\* response is 200 with the body null
Unknown(t) ==
    \E c \in OtherCommands :
        /\ Free(t) /\ ncmd < MaxInputs
        /\ ncmd' = ncmd + 1
        /\ IF RobotCommand(c)
           THEN Commit([Request(t, c, None) EXCEPT
                    !.resp[t] = [id |-> 1 - req[t].id, success |-> "null"]])
           ELSE Commit([Request(t, c, None) EXCEPT
                    !.resp[t] = [id |-> 1 - req[t].id, success |-> "422"]])
        /\ UNCHANGED <<robot_state, log, pending, now, ticks, started, observed,
                       logFailed, session>>

\* GET /robot/status
get_robot_status ==
    /\ ncmd < MaxInputs
    /\ ncmd' = ncmd + 1
    /\ observed' = <<to_dict(robot_state)>>
    /\ UNCHANGED <<robot_state, active_connections, sub, inbox, log, pc, bc, pending,
                   req, resp, now, ticks, nev, started, logFailed, session>>

(***************************************************************************)
(* robot_simulation                                                        *)
(***************************************************************************)
TickGuard(rs) == rs.is_cleaning /\ rs.status # "paused"

\* an increment that leaves the status as it was
AdvanceKeepStatus(rs) == [rs EXCEPT !.progress = rs.progress + ProgressStep]

Advance(rs) ==
    [rs EXCEPT !.progress = rs.progress + ProgressStep,
               !.status = PhaseOf(rs.progress + ProgressStep)]

ObstaclePause(rs) ==
    [rs EXCEPT !.obstacle_detected = TRUE, !.status = "paused",
               !.pause_reason = "obstacle_detected"]

ObstacleClear(rs) == [rs EXCEPT !.obstacle_detected = FALSE, !.pause_reason = None]

\* a completion branch that does not assign the status
CompleteKeepStatus(rs) == [rs EXCEPT !.is_cleaning = FALSE, !.progress = ProgressFull]

Complete(rs) == [rs EXCEPT !.is_cleaning = FALSE, !.status = "idle", !.progress = ProgressFull]

\* the loop wakes from asyncio.sleep(5) and finds the robot active
Tick ==
    /\ pc[TICK] = "sleep" /\ ticks < MaxTicks
    /\ TickGuard(robot_state)
    /\ ticks' = ticks + 1
    /\ IF robot_state.progress < ProgressFull
       THEN /\ \E roll \in BOOLEAN :
                 \* a roll below 0.1 is an input of the run, like a request
                 /\ roll => ncmd < MaxInputs
                 /\ ncmd' = IF roll THEN ncmd + 1 ELSE ncmd
                 /\ IF roll /\ ~robot_state.obstacle_detected
                    THEN /\ robot_state' = ObstaclePause(Advance(robot_state))
                         /\ session' = [ticks |-> session.ticks + 1, clean |-> FALSE]
                         /\ Commit(BeginBroadcast(TICK, "alert", robot_state',
                                                   [Shared EXCEPT !.tick = ticks + 1]))
                    ELSE /\ robot_state' = Advance(robot_state)
                         /\ session' = [session EXCEPT !.ticks = @ + 1]
                         /\ Commit(BeginBroadcast(TICK, "status_update", robot_state',
                                                   [Shared EXCEPT !.tick = ticks + 1]))
            /\ UNCHANGED <<now, pending>>
       ELSE /\ robot_state' = Complete(robot_state)
            /\ session' = [session EXCEPT !.ticks = @ + 1]
            /\ now' = now + 1
            /\ UNCHANGED ncmd
            /\ IF robot_state.start_time = NoTime
               THEN \* end_time - None raises TypeError and ends the task
                    /\ Commit([Shared EXCEPT !.pc[TICK] = "dead"])
                    /\ UNCHANGED pending
               ELSE /\ pending' = [pending EXCEPT ![TICK] =
                           CleaningLog(robot_state.start_time, now + 1,
                                       robot_state.current_mode, "completed", ProgressFull)]
                    /\ Commit([Shared EXCEPT !.pc[TICK] = "insert"])
    /\ UNCHANGED <<log, started, observed, logFailed>>

\* asyncio.sleep(3) returns
TickGrace ==
    /\ pc[TICK] = "grace"
    /\ robot_state' = ObstacleClear(robot_state)
    /\ Commit(BeginBroadcast(TICK, "info", robot_state', Shared))
    /\ UNCHANGED <<log, pending, now, ncmd, ticks, started, observed, logFailed, session>>

\* insert_one of the completed log returns
TickInsert ==
    /\ pc[TICK] = "insert"
    /\ pending' = [pending EXCEPT ![TICK] = NoLog]
    /\ \/ /\ log' = Append(log, pending[TICK])
          /\ Commit(BeginBroadcast(TICK, "cleaning_complete", robot_state, Shared))
          /\ UNCHANGED <<logFailed, ncmd>>
       \/ \* the store is unavailable: insert_one raises and ends the task
          /\ ncmd < MaxInputs
          /\ ncmd' = ncmd + 1
          /\ logFailed' = TRUE
          /\ Commit([Shared EXCEPT !.pc[TICK] = "dead"])
          /\ UNCHANGED log
    /\ UNCHANGED <<robot_state, now, ticks, started, observed, session>>

\* a task suspended in send_text inside broadcast is resumed
BroadcastStep(a) ==
    /\ bc[a].active /\ ~bc[a].blocked
    /\ Commit(broadcast(a, robot_state, Shared))
    /\ UNCHANGED <<robot_state, log, pending, now, ncmd, ticks, started, observed,
                   logFailed, session>>

(***************************************************************************)
(* websocket_endpoint                                                      *)
(***************************************************************************)
\* an endpoint that registers the socket and sends no initial state
websocket_endpointSilent(S, s, rs) ==
    [S EXCEPT !.ac = Append(@, s), !.sub[s] = "open"]

\* manager.connect appends the socket; the endpoint then sends the initial state
websocket_endpoint(S, s, rs) ==
    send_text([S EXCEPT !.ac = Append(@, s), !.sub[s] = "open"],
              s, [id |-> 0, type |-> "status_update", message |-> None, tick |-> 0,
                  robot_state |-> to_dict(rs)])

Connect(s) ==
    /\ sub[s] = "new" /\ \A u \in Subs : u < s => sub[u] # "new"
    /\ ncmd < MaxInputs
    /\ ncmd' = ncmd + 1
    /\ Commit(websocket_endpoint(Shared, s, robot_state))
    /\ UNCHANGED <<robot_state, log, pending, now, ticks, started, observed, logFailed,
                   session>>

\* the client stops reading: every later send_text to it stays suspended
Stall(s) ==
    /\ sub[s] = "open"
    /\ ncmd < MaxInputs
    /\ ncmd' = ncmd + 1
    /\ sub' = [sub EXCEPT ![s] = "stuck"]
    /\ UNCHANGED <<robot_state, active_connections, inbox, log, pc, bc, pending, req,
                   resp, now, ticks, nev, started, observed, logFailed, session>>

\* the client's socket fails: every later send_text to it raises
Break(s) ==
    /\ sub[s] = "open"
    /\ ncmd < MaxInputs
    /\ ncmd' = ncmd + 1
    /\ sub' = [sub EXCEPT ![s] = "broken"]
    /\ UNCHANGED <<robot_state, active_connections, inbox, log, pc, bc, pending, req,
                   resp, now, ticks, nev, started, observed, logFailed, session>>

\* receive_text raises WebSocketDisconnect: manager.disconnect(websocket)
Disconnect(s) ==
    /\ sub[s] \in {"open", "broken"}
    /\ ncmd < MaxInputs
    /\ ncmd' = ncmd + 1
    /\ sub' = [sub EXCEPT ![s] = "closed"]
    /\ active_connections' = disconnect(active_connections, s)
    /\ UNCHANGED <<robot_state, inbox, log, pc, bc, pending, req, resp, now,
                   ticks, nev, started, observed, logFailed, session>>

Next ==
    \/ \E t \in Tasks : Start(t)
    \/ \E t \in Tasks : Stop(t)
    \/ \E t \in Tasks : StopInsert(t)
    \/ \E t \in Tasks : Pause(t)
    \/ \E t \in Tasks : Resume(t)
    \/ \E t \in Tasks : Unknown(t)
    \/ get_robot_status
    \/ Tick
    \/ TickGrace
    \/ TickInsert
    \/ \E a \in Agents : BroadcastStep(a)
    \/ \E s \in Subs : Connect(s)
    \/ \E s \in Subs : Stall(s)
    \/ \E s \in Subs : Break(s)
    \/ \E s \in Subs : Disconnect(s)

Spec == Init /\ [][Next]_vars

\* The same states at the moment the first client has connected: it is in the
\* connection list and holds the snapshot of its connect.
InitConnected ==
    /\ \/ /\ robot_state = RobotState0
          /\ now = 0
          /\ started = <<>>
          /\ session = [ticks |-> 0, clean |-> TRUE]
       \/ /\ \E p \in InitProgress :
                /\ robot_state = Running(p)
                /\ session = [ticks |-> p \div ProgressStep, clean |-> TRUE]
          /\ now = 1
          /\ started = <<[start_time |-> 1, mode |-> "full_clean"]>>
    /\ active_connections = <<1>>
    /\ sub = [s \in Subs |-> IF s = 1 THEN "open" ELSE "new"]
    /\ inbox = [s \in Subs |->
                  IF s = 1
                  THEN <<[id |-> 0, type |-> "status_update", message |-> None,
                          tick |-> 0, robot_state |-> to_dict(robot_state)]>>
                  ELSE <<>>]
    /\ log = <<>>
    /\ pc = [a \in Agents |-> IF a = TICK THEN "sleep" ELSE "idle"]
    /\ bc = [a \in Agents |-> NoBc]
    /\ pending = [a \in Agents |-> NoLog]
    /\ req = [t \in Tasks |-> NoReq]
    /\ resp = [t \in Tasks |-> NoResp]
    /\ ncmd = 0
    /\ ticks = 0
    /\ nev = 0
    /\ observed = <<>>
    /\ logFailed = FALSE

SpecConnected == InitConnected /\ [][Next]_vars

\* The event loop resumes every task whose await has completed: a sleep
\* ends, insert_one returns or raises, send_text to a client that is not
\* stuck returns or raises.  Nothing obliges the environment to send a
\* request or to touch a websocket.
Fairness ==
    /\ WF_vars(Tick)
    /\ WF_vars(TickGrace)
    /\ WF_vars(TickInsert)
    /\ \A a \in Agents : WF_vars(BroadcastStep(a))
    /\ \A t \in Tasks : WF_vars(StopInsert(t))

LiveSpec == Spec /\ Fairness

(***************************************************************************)
(* Properties                                                              *)
(***************************************************************************)
Issued(t, c) == req'[t].id # req[t].id /\ req'[t].command = c
Answered(t, c, how) ==
    req[t].command = c /\ resp[t].id = req[t].id /\ resp[t].success = how
Range(f) == {f[i] : i \in DOMAIN f}

\* C1: in every reachable state pause_reason is set if and only if the status
\* is paused.
C1_PauseReasonIffPaused ==
    (robot_state.pause_reason # None) <=> (robot_state.status = "paused")

\* C2: in every reachable state obstacle_detected implies that the status is
\* paused and the pause reason is obstacle_detected.
C2_ObstacleOnlyWhilePaused ==
    robot_state.obstacle_detected =>
        /\ robot_state.status = "paused"
        /\ robot_state.pause_reason = "obstacle_detected"

\* C3: in every reachable state current_mode and start_time are both set if
\* and only if is_cleaning is true.
C3_ModeAndStartIffCleaning ==
    (robot_state.current_mode # None /\ robot_state.start_time # NoTime)
        <=> robot_state.is_cleaning

\* C4: a start command issued while is_cleaning is true is answered at once
\* with success false, and a step that turns is_cleaning from false to true is
\* the step of a start command.
C4_StartRejectedWhileCleaning ==
    [][/\ \A t \in Tasks :
            (Issued(t, "start") /\ robot_state.is_cleaning) =>
                resp'[t] = [id |-> req'[t].id, success |-> "false"]
       /\ (~robot_state.is_cleaning /\ robot_state'.is_cleaning) =>
            \E t \in Tasks : Issued(t, "start")]_vars

C4_Witness ==
    /\ robot_state.is_cleaning
    /\ \E t \in Tasks : Answered(t, "start", "false")
    /\ \E t \in Tasks : req[t].command \in {"stop", "pause", "resume"}

\* C5: once no insert is outstanding, and provided no insert has failed,
\* every session that has ended has exactly one record in the log.
Ended(i) == i < Len(started) \/ ~robot_state.is_cleaning
RecordsOf(i) == {j \in DOMAIN log : log[j].start_time = started[i].start_time}
C5_OneRecordPerSession ==
    ((\A a \in Agents : pending[a] = NoLog) /\ ~logFailed) =>
        \A i \in DOMAIN started : Ended(i) => Cardinality(RecordsOf(i)) = 1

\* C6: the record an accepted stop hands to the log is interrupted, carries
\* the progress held when the stop was accepted and the start time and mode
\* of the session being stopped, and that record is what the insert appends.
Session == started[Len(started)]
C6_StopRecord ==
    [][\A t \in Tasks :
        /\ (pc[t] # "insert" /\ pc'[t] = "insert") =>
              /\ pending'[t].status = "interrupted"
              /\ pending'[t].progress = robot_state.progress
              /\ pending'[t].start_time = Session.start_time
              /\ pending'[t].mode = Session.mode
        /\ (pc[t] = "insert" /\ pc'[t] # "insert"
                /\ resp'[t] # [id |-> req[t].id, success |-> "error"]) =>
              log' = Append(log, pending[t])]_vars

C6_Witness ==
    \E t \in Tasks :
        /\ Answered(t, "stop", "true")
        /\ \E j \in DOMAIN log : log[j].status = "interrupted" /\ log[j].progress > 0

\* C7: while a stop is between its first and its last write of robot_state
\* (it awaits the insert), no status query reads the state and no other
\* operation writes it.
C7_MutationsAtomic ==
    [][\A t \in Tasks :
        (pc[t] = "insert" /\ pc'[t] = "insert") =>
            (robot_state' = robot_state /\ observed' = observed)]_vars

\* C8: when a broadcast call returns, its message has been delivered to every
\* client that was connected when the call began and is still open.
Returned(a) == bc[a].active /\ (~bc'[a].active \/ bc'[a].msg.id # bc[a].msg.id)
C8_DeliveredToAll ==
    [][\A a \in Agents :
        Returned(a) =>
            \A s \in Range(bc[a].targets) :
                sub'[s] = "open" => bc[a].msg.id \in {inbox'[s][i].id : i \in DOMAIN inbox'[s]}]_vars

\* C9: two broadcast messages that two clients both receive arrive in the
\* same order at both.
C9_SameOrder ==
    \A s1, s2 \in Subs :
        \A i, j \in DOMAIN inbox[s1] :
            \A k, l \in DOMAIN inbox[s2] :
                (i < j /\ inbox[s1][i].id # 0
                       /\ inbox[s1][i].id = inbox[s2][k].id
                       /\ inbox[s1][j].id = inbox[s2][l].id) => k < l

\* C10: the step that connects a client leaves exactly one frame in its
\* inbox, a status_update carrying the robot state of that moment, and that
\* frame stays the first one the client has.
C10_SnapshotFirst ==
    /\ [][\A s \in Subs :
            (sub[s] = "new" /\ sub'[s] # "new") =>
                /\ Len(inbox'[s]) = 1
                /\ inbox'[s][1].type = "status_update"
                /\ inbox'[s][1].robot_state = to_dict(robot_state)]_vars
    /\ [][\A s \in Subs :
            inbox[s] # <<>> => (inbox'[s] # <<>> /\ inbox'[s][1] = inbox[s][1])]_vars

\* a client that connected while a broadcast was running: after its snapshot
\* it has received the message of that broadcast, built before it connected
C10_Witness ==
    \E s \in Subs, a \in Agents :
        /\ bc[a].active
        /\ s \notin Range(bc[a].targets)
        /\ sub[s] = "open"
        /\ Len(inbox[s]) >= 2
        /\ inbox[s][1].type = "status_update" /\ inbox[s][1].id = 0
        /\ inbox[s][Len(inbox[s])].id = bc[a].msg.id

\* C11: when the insert of the simulation task returns, with a record stored
\* or with a failure of the store, the task goes on: it is not ended, so
\* later ticks can still fire.
C11_DriverSurvivesLogFailure ==
    [][(pc[TICK] = "insert" /\ pc'[TICK] # "insert") => pc'[TICK] # "dead"]_vars

\* C12: when the insert of an accepted stop returns with a failure, the stop
\* transition stands in full: the robot is idle and not cleaning, progress is
\* 0 and start_time and current_mode are unset.
C12_StopStandsOnLogFailure ==
    [][\A t \in Tasks :
        (pc[t] = "insert" /\ pc'[t] # "insert"
            /\ resp'[t] = [id |-> req[t].id, success |-> "error"]) =>
                /\ ~robot_state'.is_cleaning
                /\ robot_state'.status = "idle"
                /\ robot_state'.progress = 0
                /\ robot_state'.start_time = NoTime
                /\ robot_state'.current_mode = None]_vars

\* C15: between ticks (the simulation task is in its sleep of 5) no session
\* is still cleaning with progress 100.
C15_CompletedInSameTick ==
    pc[TICK] = "sleep" =>
        ~(robot_state.is_cleaning /\ robot_state.progress = ProgressFull)

\* C13: a session that is cleaning and has had neither a pause nor an obstacle
\* has, after N ticks, the progress min(100, 2*N).
Min(a, b) == IF a < b THEN a ELSE b
C13_ProgressIsTwicePerTick ==
    (robot_state.is_cleaning /\ session.clean) =>
        robot_state.progress = Min(ProgressFull, ProgressStep * session.ticks)

\* C14: a tick that increments progress and raises no obstacle leaves the
\* status given by the new progress alone: below 30 mopping, below 60
\* spraying, below 90 uv_disinfecting, from 90 on mopping.
C14_Table(p) ==
    CASE p < 30 -> "mopping"
      [] 30 <= p /\ p < 60 -> "spraying"
      [] 60 <= p /\ p < 90 -> "uv_disinfecting"
      [] 90 <= p -> "mopping"
C14_StatusFromProgress ==
    [][(/\ ticks' = ticks + 1
        /\ robot_state'.progress # robot_state.progress
        /\ ~(robot_state'.obstacle_detected /\ ~robot_state.obstacle_detected)) =>
            robot_state'.status = C14_Table(robot_state'.progress)]_vars

\* a session resumed at progress 58 with status mopping has ticked to 60 and
\* is in uv_disinfecting
C14_Witness ==
    /\ robot_state.progress = 60
    /\ robot_state.status = "uv_disinfecting"
    /\ session.ticks = 30
    /\ \E t \in Tasks : Answered(t, "resume", "true")

\* C16: when a broadcast call in which a delivery failed returns, exactly the
\* clients whose delivery failed have left the connection list, every other
\* client that was connected when the call began and is still open has the
\* message, and the caller goes on without an error.
C16_FailureEvictsOnlyFailed ==
    [][\A a \in Agents :
        (Returned(a) /\ bc[a].disconnected # <<>>) =>
            /\ Range(active_connections') =
                    Range(active_connections) \ Range(bc[a].disconnected)
            /\ \A s \in Range(bc[a].targets) \ Range(bc[a].disconnected) :
                    sub'[s] = "open" =>
                        bc[a].msg.id \in {inbox'[s][i].id : i \in DOMAIN inbox'[s]}
            /\ pc'[a] # "dead"
            /\ a \in Tasks => resp'[a].success # "error"]_vars

\* C17: a running broadcast call always returns, and no open client that was
\* connected when the call began is left waiting for its message for ever,
\* also when another client of the call is stuck.
HasFrame(s, n) == \E i \in DOMAIN inbox[s] : inbox[s][i].id = n
Owed(s) ==
    \E a \in Agents :
        /\ bc[a].active
        /\ s \in Range(bc[a].targets)
        /\ sub[s] = "open"
        /\ ~HasFrame(s, bc[a].msg.id)
C17_SlowSubscriberDoesNotBlock ==
    /\ \A a \in Agents : bc[a].active ~> ~bc[a].active
    /\ \A s \in Subs : Owed(s) ~> ~Owed(s)

\* C19: a pause for an obstacle is always followed by a state in which the
\* status is not paused.
C19_AutoResume ==
    (robot_state.pause_reason = "obstacle_detected") ~> (robot_state.status # "paused")

\* C18: the simulation task builds, after the alert of an obstacle, the
\* path-clear info of the same tick and after that info the status_update of
\* the same tick; the frames of one tick that a client holds are in the order
\* alert, info, status_update; and the step that evaluates completion finds
\* no broadcast of the task running and no obstacle pending.
Rank(type) ==
    CASE type = "alert" -> 1
      [] type = "info" -> 2
      [] type = "status_update" -> 3
      [] OTHER -> 4
Builds(a) ==
    /\ bc'[a].active
    /\ ~bc[a].active \/ bc'[a].msg.id # bc[a].msg.id
C18_ObstacleEventOrder ==
    /\ [](\A s \in Subs : \A i, j \in DOMAIN inbox[s] :
            (i < j /\ inbox[s][i].tick > 0 /\ inbox[s][i].tick = inbox[s][j].tick) =>
                Rank(inbox[s][i].type) < Rank(inbox[s][j].type))
    /\ [][/\ (Builds(TICK) /\ pc[TICK] \in {"alert", "grace"}) =>
                /\ bc'[TICK].msg.type = "info"
                /\ bc'[TICK].msg.message = "Path clear. Resuming cleaning..."
                /\ bc'[TICK].msg.tick = ticks
          /\ (Builds(TICK) /\ pc[TICK] = "info") =>
                /\ bc'[TICK].msg.type = "status_update"
                /\ bc'[TICK].msg.tick = ticks
          /\ (ticks' = ticks + 1 /\ robot_state.progress >= ProgressFull) =>
                /\ ~bc[TICK].active
                /\ ~robot_state.obstacle_detected
                /\ robot_state.pause_reason # "obstacle_detected"]_vars

\* a client holds the alert, the info and the status_update of one tick, in
\* that order, and after them the cleaning_complete of a later tick
C18_Witness ==
    \E s \in Subs : \E i, j, k, l \in DOMAIN inbox[s] :
        /\ i < j /\ j < k /\ k < l
        /\ inbox[s][i].type = "alert"
        /\ inbox[s][j].type = "info" /\ inbox[s][j].tick = inbox[s][i].tick
        /\ inbox[s][k].type = "status_update" /\ inbox[s][k].tick = inbox[s][i].tick
        /\ inbox[s][l].type = "cleaning_complete"

\* C20: while the simulation task is in its grace wait, a request of each
\* kind can be taken (an input and a handler task being available), the step
\* that takes it answers it or leaves the handler at its own await, the
\* handler's later steps can run, and none of this ends the grace wait.
Idle == \E t \in Tasks : pc[t] = "idle"
C20_GraceDoesNotBlockCommands ==
    /\ [](pc[TICK] = "grace" =>
            /\ (ncmd < MaxInputs /\ Idle) =>
                  /\ ENABLED (\E t \in Tasks : Start(t))
                  /\ ENABLED (\E t \in Tasks : Stop(t))
                  /\ ENABLED (\E t \in Tasks : Pause(t))
                  /\ ENABLED (\E t \in Tasks : Resume(t))
            /\ \A t \in Tasks :
                  /\ (bc[t].active /\ ~bc[t].blocked) => ENABLED BroadcastStep(t)
                  /\ pc[t] = "insert" => ENABLED StopInsert(t))
    /\ [][\A t \in Tasks :
            (pc[TICK] = "grace" /\ (req'[t] # req[t] \/ pc'[t] # pc[t])) =>
                /\ pc'[TICK] = "grace"
                /\ req'[t] # req[t] =>
                      \/ resp'[t].id = req'[t].id
                      \/ pc'[t] \in {"info", "insert"}]_vars

\* no other client has ever connected, so the alert was broadcast within the
\* tick; a client that connected during the grace wait (its snapshot shows the
\* obstacle pause) then got the info of a resume, which has been answered,
\* and the simulation task is still in its grace wait
C20_Witness ==
    \E s \in Subs, t \in Tasks :
        /\ pc[TICK] = "grace"
        /\ \A u \in Subs \ {s} : sub[u] = "new"
        /\ Len(inbox[s]) = 2
        /\ inbox[s][1].robot_state.obstacle_detected
        /\ inbox[s][1].robot_state.status = "paused"
        /\ inbox[s][2].message = "Cleaning resumed"
        /\ Answered(t, "resume", "true")
        /\ robot_state.status = "mopping"

\* C21: progress is always within 0..100, and a step that stays within one
\* session (the robot is cleaning before and after it) does not lower it.
C21_ProgressMonotone ==
    /\ [](robot_state.progress \in 0..ProgressFull)
    /\ [][(robot_state.is_cleaning /\ robot_state'.is_cleaning) =>
            robot_state'.progress >= robot_state.progress]_vars

\* C22: a command that is invalid for the state it arrives in (start while
\* cleaning, stop while not cleaning, pause while not cleaning or paused,
\* resume while not cleaning or not paused) is answered at once with success
\* false; robot_state, the log, every inbox and the number of messages built
\* are unchanged by the step and the handler starts no broadcast or insert.
Invalid(c, rs) ==
    CASE c = "start" -> rs.is_cleaning
      [] c = "stop" -> ~rs.is_cleaning
      [] c = "pause" -> ~rs.is_cleaning \/ rs.status = "paused"
      [] c = "resume" -> ~rs.is_cleaning \/ rs.status # "paused"
      [] OTHER -> FALSE
C22_InvalidCommandNoEffect ==
    [][\A t \in Tasks : \A c \in {"start", "stop", "pause", "resume"} :
        (Issued(t, c) /\ Invalid(c, robot_state)) =>
            /\ resp'[t] = [id |-> req'[t].id, success |-> "false"]
            /\ robot_state' = robot_state
            /\ log' = log /\ pending' = pending
            /\ inbox' = inbox /\ nev' = nev
            /\ pc'[t] = "idle" /\ ~bc'[t].active]_vars

\* a pause that arrived while the robot was already paused has been refused:
\* the only message ever built is the one of the pause that was accepted
C22_Witness ==
    \E t \in Tasks :
        /\ Answered(t, "pause", "false")
        /\ robot_state.is_cleaning /\ robot_state.status = "paused"
        /\ robot_state.pause_reason = "user_request"
        /\ nev = 1 /\ log = <<>>

\* C23: a command that is none of start, stop, pause, resume is answered
\* with the validation error 422 and robot_state is unchanged by the step.
C23_UnknownCommandRejected ==
    [][\A t \in Tasks : \A c \in OtherCommands :
        Issued(t, c) =>
            /\ resp'[t] = [id |-> req'[t].id, success |-> "422"]
            /\ robot_state' = robot_state]_vars

\* C24: a step that begins and ends with the session paused leaves progress
\* as it was, so that the progress found by the next accepted resume or stop
\* is the progress of the moment the pause took effect.
PausedSession(rs) == rs.is_cleaning /\ rs.status = "paused"
C24_PausedProgressFrozen ==
    [][(PausedSession(robot_state) /\ PausedSession(robot_state')) =>
            robot_state'.progress = robot_state.progress]_vars

\* C25: the step of an accepted resume (the robot is cleaning and paused)
\* leaves status mopping and pause_reason unset, leaves obstacle_detected
\* false when the pause was caused by an obstacle, and leaves progress,
\* is_cleaning, start_time and current_mode as they were.
C25_ResumeEffect ==
    [][\A t \in Tasks :
        (Issued(t, "resume") /\ robot_state.is_cleaning
                /\ robot_state.status = "paused") =>
            /\ robot_state'.status = "mopping"
            /\ robot_state'.pause_reason = None
            /\ robot_state.pause_reason = "obstacle_detected" =>
                    ~robot_state'.obstacle_detected
            /\ robot_state'.progress = robot_state.progress
            /\ robot_state'.is_cleaning = robot_state.is_cleaning
            /\ robot_state'.start_time = robot_state.start_time
            /\ robot_state'.current_mode = robot_state.current_mode]_vars

\* C26: in every reachable state the status is idle if and only if
\* is_cleaning is false.
C26_IdleIffNotCleaning ==
    (robot_state.status = "idle") <=> ~robot_state.is_cleaning

\* a session started while the stop of the previous one awaited its insert
\* has, after that stop has finished (it has cleared start_time), ticked and
\* ended: the robot is idle and not cleaning
C26_Witness ==
    /\ Len(started) = 2
    /\ robot_state.start_time = NoTime
    /\ log # <<>>
    /\ ~robot_state.is_cleaning /\ robot_state.status = "idle"
    /\ ticks >= 1

\* C27: every cleaning_complete message, the one being broadcast and those
\* the clients hold, carries a state with is_cleaning false and status idle.
EndState(d) == ~d.is_cleaning /\ d.status = "idle"
C27_CompleteCarriesEndState ==
    /\ \A a \in Agents :
          (bc[a].active /\ bc[a].msg.type = "cleaning_complete") =>
              EndState(bc[a].msg.robot_state)
    /\ \A s \in Subs : \A i \in DOMAIN inbox[s] :
          inbox[s][i].type = "cleaning_complete" => EndState(inbox[s][i].robot_state)

====
